---------------------------- MODULE Spec2Model ----------------------------
(***************************************************************************)
(* A model of rpc-go: the client call engine (pkg/client), the gob codec   *)
(* (pkg/codec), the handshake option (pkg/option) and the server's         *)
(* per-connection pipeline and accept loop (pkg/server).                   *)
(*                                                                         *)
(* One TCP connection is two streams of gob values, c2s and s2c.  A value  *)
(* is the JSON option, a frame header or a frame body.  Strings that the   *)
(* code inspects (service-method names, error texts) are sequences of      *)
(* tokens, so that splitting and formatting are computed and not assumed.  *)
(***************************************************************************)
EXTENDS Integers, Sequences, FiniteSets, TLC

(* ------------------------------ bounds -------------------------------- *)
\* number of Go/Call invocations made on the client
MaxCalls == 2
\* number of Client.Close invocations
MaxClose == 2
\* capacity of the Done channel a user hands to several Go invocations
UserChanCap == 1
\* length of the error texts a registered method may return
MaxMsgLen == 2
\* number of frames a raw peer writes on one connection
MaxPeerFrames == 2
\* number of listener Accept results (connections or errors)
MaxAccepts == 2
\* goroutines calling Registry
MaxRegs == 2
\* options passed to one Dial
MaxOpts == 3

(* ------------------------- program constants -------------------------- *)
\* option.MagicNumber, 0x237658
MagicNumber == 2324056
\* a magic value that is not option.MagicNumber
WrongMagic == MagicNumber + 1
\* codec.GobType and codec.JsonType
GobType == "application/gob"
JsonType == "application/json"
\* the constructors init() puts in codec.NewCodecFuncMap
NewCodecFuncMap == {GobType}
\* cap of the channel Go makes when done == nil; of the one Call makes
GoChanCap == 10
CallChanCap == 1
\* value of a reply destination before the call (var reply int)
ReplyInit == 0

(* --------------------------- errors, strings -------------------------- *)
NilErr == [isNil |-> TRUE, msg |-> <<>>]
Err(m) == [isNil |-> FALSE, msg |-> m]
ErrShutdown == Err(<<"connection is shut down">>)
\* what the connection's Read returns
EOF == Err(<<"EOF">>)
ErrReadClosed == Err(<<"read: use of closed network connection">>)
ErrReadReset == Err(<<"read: connection reset by peer">>)
\* what the connection's Write returns, kept by bufio.Writer as its sticky error
ErrWriteClosed == Err(<<"write: use of closed network connection">>)
ErrWriteReset == Err(<<"write: broken pipe">>)
\* gob: the next value of the stream does not decode into the destination
ErrGobMismatch == Err(<<"gob: type mismatch">>)
\* gob: the value cannot be encoded (a channel, a func)
ErrGobEncode == Err(<<"gob: type not registered for interface">>)
\* json: the first bytes of the connection are not an option object
ErrJson == Err(<<"json: invalid character">>)

\* service-method names, as tokens; "." is the separator LastIndex looks for
FooSum == <<"Foo", ".", "Sum">>
FooFail == <<"Foo", ".", "Fail">>
FooNope == <<"Foo", ".", "Nope">>
BarSum == <<"Bar", ".", "Sum">>
NoDot == <<"FooSum">>

(* ------------------------------- state -------------------------------- *)
VARIABLES
    \* the connection
    c2s, s2c,           \* values written and not yet read, per direction
    net,                \* "up" | "down"
    cliConn, srvConn,   \* "open" | "closed": each side's socket
    \* Client (client.go 19-31), its codec and its Calls
    seq, pending, closing, shutdown, header, sending, mu,
    cliBuf, cliBufErr,  \* GobCodec.buf of the client: its values, its sticky error
    calls, callPc, sendErr, sendCall, doneBuf,
    recvPc, recvH, recvCall, recvErr, termLeft,
    closeRet, ccCloses,
    \* Server: registry, ServeConn/serveCodec of the connection being served
    serviceMap, failMsg,
    srvPc, srvOpt, srvReq, srvErr, handlers, srvSending, srvBuf, srvBufErr,
    \* Server.Accept and the raw peers of the listener
    accPc, nAccepts, accErrs, peerSent, peerGot,
    \* Server.Registry in progress, per registering goroutine
    regPc, regRecv, regSvc, regRet,
    \* a lookup through findService and the reply value made for its method
    findName, found, replyv,
    \* client.Dial in progress: its options, where it is, what it returns
    dialOpts, dialPc, dialOpt, dialRet, dialConns

connVars == <<c2s, s2c, net, cliConn, srvConn>>
cliVars == <<seq, pending, closing, shutdown, header, sending, mu, cliBuf,
             cliBufErr, calls, callPc, sendErr, sendCall, doneBuf, recvPc,
             recvH, recvCall, recvErr, termLeft, closeRet, ccCloses>>
srvVars == <<serviceMap, failMsg, srvPc, srvOpt, srvReq, srvErr, handlers,
             srvSending, srvBuf, srvBufErr>>
accVars == <<accPc, nAccepts, accErrs, peerSent, peerGot>>
regVars == <<regPc, regRecv, regSvc, regRet, findName, found, replyv>>
dialVars == <<dialOpts, dialPc, dialOpt, dialRet, dialConns>>
libVars == <<regVars, dialVars>>
vars == <<connVars, cliVars, srvVars, accVars, libVars>>

\* who holds a sync.Mutex
Free == <<"free", 0>>
ByCall(c) == <<"call", c>>
ByRecv == <<"recv", 0>>
ByLoop == <<"loop", 0>>
ByHandler(i) == <<"handler", i>>

\* sync.Mutex.Lock proceeding although the mutex is held
LockFreeAlways(m) == TRUE
\* sync.Mutex.Lock (client.go 175, part_001 183) proceeds when nobody holds m
LockFree(m) == m = Free

CallIds == 1..MaxCalls
\* the channel a user shares between Go invocations; call c's own channel is c
UserChan == MaxCalls + 1
ChanIds == {UserChan} \cup CallIds

(* ------------------------------ the wire ------------------------------ *)
\* codec.Header (main.go 122-128)
Hdr(m, s, e) == [k |-> "hdr", ServerMethod |-> m, Seq |-> s, Error |-> e]
\* a gob-encoded body: t is its Go type, v its content
Body(t, v) == [k |-> "body", t |-> t, v |-> v]
\* the JSON-encoded option.Option
Opt(magic, codec) == [k |-> "opt", MagicNumber |-> magic, CodecType |-> codec]
\* server.invalidRequest, struct{}{}
invalidRequest == Body("struct{}", 0)
\* body types gob can encode; a chan cannot be
Encodable(b) == b.t # "chan"

\* net.Conn.Read on the client's socket
CliCanRead == cliConn = "open" /\ net = "up" /\ s2c # <<>>
CliReadFails ==
    \/ cliConn = "closed"
    \/ net = "down"
    \/ s2c = <<>> /\ srvConn = "closed"
CliReadError ==
    IF cliConn = "closed" THEN ErrReadClosed
    ELSE IF net = "down" THEN ErrReadReset ELSE EOF
\* net.Conn.Read on the server's socket
SrvCanRead == srvConn = "open" /\ net = "up" /\ c2s # <<>>
SrvReadFails ==
    \/ srvConn = "closed"
    \/ net = "down"
    \/ c2s = <<>> /\ cliConn = "closed"
SrvReadError ==
    IF srvConn = "closed" THEN ErrReadClosed
    ELSE IF net = "down" THEN ErrReadReset ELSE EOF
\* net.Conn.Write: fails on a socket closed locally or a broken network
CliWriteOK == cliConn = "open" /\ net = "up"
CliWriteError == IF cliConn = "closed" THEN ErrWriteClosed ELSE ErrWriteReset
SrvWriteOK == srvConn = "open" /\ net = "up"
SrvWriteError == IF srvConn = "closed" THEN ErrWriteClosed ELSE ErrWriteReset

\* gob Decoder.Decode(&h) of the next value into a codec.Header
DecodesAsHeader(item) == item.k = "hdr"
\* gob Decoder.Decode(dest) of the next value into a body of Go type t;
\* Decode(nil) (t = "nil") discards any value
DecodesAsBody(item, t) == t = "nil" \/ (item.k = "body" /\ item.t = t)


(* ------------------------- fmt.Errorf(format) -------------------------- *)
\* fmt.Errorf with a format and no operands (client.go 117): "%%" prints "%",
\* "%" before any other verb character x prints "%!x(MISSING)", a trailing
\* "%" prints "%!(NOVERB)", every other character prints itself.
RECURSIVE Errorf(_)
Errorf(format) ==
    IF format = <<>> THEN <<>>
    ELSE IF Head(format) # "%" THEN <<Head(format)>> \o Errorf(Tail(format))
    ELSE IF Len(format) = 1 THEN <<"%!(NOVERB)">>
    ELSE IF format[2] = "%"
         THEN <<"%">> \o Errorf(SubSeq(format, 3, Len(format)))
         ELSE <<"%!", format[2], "(MISSING)">>
                  \o Errorf(SubSeq(format, 3, Len(format)))

(* ------------------------------ the Calls ------------------------------ *)
\* a Call not yet made.  Beside the fields of Call (part_000 65-72): how
\* often it was sent on Done, how often a response was decoded into Reply,
\* and whether receive matched a reply header with it
NoCall == [Seq |-> 0, ServerMethod |-> <<>>, Args |-> Body("none", 0),
           Reply |-> ReplyInit, Error |-> NilErr, Done |-> UserChan,
           kind |-> "none", notified |-> 0, replyWrites |-> 0,
           replied |-> FALSE]
\* cap(call.Done)
ChanCap(ch) ==
    IF ch = UserChan THEN UserChanCap
    ELSE IF calls[ch].kind = "Call" THEN CallChanCap ELSE GoChanCap
\* Call.done (part_000 74-77): c.Done <- c, which blocks while the channel is full
CanDone(c) == Len(doneBuf[calls[c].Done]) < ChanCap(calls[c].Done)
DoneSend(buf, c) == [buf EXCEPT ![calls[c].Done] = Append(@, c)]
\* terminalCalls without call.Error = err
CompletedNoError(call, e) == [call EXCEPT !.notified = @ + 1]
\* the Call after call.Error = err; call.done() (client.go 96-97)
Completed(call, e) ==
    [call EXCEPT !.Error = e, !.notified = @ + 1]

(* ---------------------------- Client.Go/Call --------------------------- *)
\* registryCall testing c.shutdown alone
RegistryRejectsShutdownOnly == shutdown
\* registryCall's test (client.go 70)
RegistryRejects == closing \/ shutdown
\* registryCall without c.seq++
NextSeqSame(s) == s
\* c.seq++ (client.go 76)
NextSeq(s) == s + 1
\* c.pending[call.Seq] = call (client.go 75)
PendingPut(p, s, c) == (s :> c) @@ p
\* removeCall without the delete
PendingDeleteKeep(p, s) == p
\* delete(c.pending, seq) (client.go 84)
PendingDelete(p, s) == [x \in DOMAIN p \ {s} |-> p[x]]

\* the Call that Go allocates (client.go 158-168).  kind is "Call" (Call's own
\* one-slot channel, client.go 219), "GoNil" (done == nil) or "GoUser" (a
\* buffered channel of the user's, shared between invocations).
NewCall(c, kind, m, a) ==
    [NoCall EXCEPT !.ServerMethod = m, !.Args = a, !.kind = kind,
                   !.Done = IF kind = "GoUser" THEN UserChan ELSE c]

\* Go (client.go 157-169) and send (client.go 173-184): the Call is allocated,
\* c.sending is taken, and registryCall runs under c.mu
CliGo(c, kind, m, a) ==
    /\ callPc[c] = "idle"
    /\ \A d \in CallIds : d < c => callPc[d] # "idle"
    /\ LockFree(sending) /\ mu = Free
    /\ sending' = ByCall(c)
    /\ IF RegistryRejects
       THEN /\ calls' = [calls EXCEPT ![c] =
                            [NewCall(c, kind, m, a) EXCEPT !.Error = ErrShutdown]]
            /\ callPc' = [callPc EXCEPT ![c] = "reject"]
            /\ UNCHANGED <<seq, pending>>
       ELSE /\ calls' = [calls EXCEPT ![c] =
                            [NewCall(c, kind, m, a) EXCEPT !.Seq = seq]]
            /\ pending' = PendingPut(pending, seq, c)
            /\ seq' = NextSeq(seq)
            /\ callPc' = [callPc EXCEPT ![c] = "prep"]
    /\ UNCHANGED <<connVars, srvVars, accVars, libVars, closing, shutdown, header, mu,
                   cliBuf, cliBufErr, sendErr, sendCall, doneBuf, recvPc,
                   recvH, recvCall, recvErr, termLeft, closeRet, ccCloses>>

\* send (client.go 180-184): call.done() of a rejected Call, then return
CliSendReject(c) ==
    /\ callPc[c] = "reject"
    /\ CanDone(c)
    /\ calls' = [calls EXCEPT ![c].notified = @ + 1]
    /\ doneBuf' = DoneSend(doneBuf, c)
    /\ sending' = Free
    /\ callPc' = [callPc EXCEPT ![c] = "sent"]
    /\ UNCHANGED <<connVars, srvVars, accVars, libVars, seq, pending, closing, shutdown,
                   header, mu, cliBuf, cliBufErr, sendErr, sendCall, recvPc, recvH,
                   recvCall, recvErr, termLeft, closeRet, ccCloses>>

\* send (client.go 187-191) and GobCodec.Write (part_000 32-43): the shared
\* header is filled and encoded into the bufio.Writer.  Encode fails when the
\* writer carries the error of an earlier failed Flush; Write then closes.
CliWriteHeader(c) ==
    /\ callPc[c] = "prep"
    /\ header' = [ServerMethod |-> calls[c].ServerMethod, Seq |-> calls[c].Seq]
    /\ IF ~cliBufErr.isNil
       THEN /\ sendErr' = cliBufErr
            /\ cliConn' = "closed"
            /\ callPc' = [callPc EXCEPT ![c] = "wfail"]
            /\ UNCHANGED cliBuf
       ELSE /\ cliBuf' = <<Hdr(calls[c].ServerMethod, calls[c].Seq, <<>>)>>
            /\ callPc' = [callPc EXCEPT ![c] = "body"]
            /\ UNCHANGED <<sendErr, cliConn>>
    /\ UNCHANGED <<c2s, s2c, net, srvConn, srvVars, accVars, libVars, seq, pending,
                   closing, shutdown, sending, mu, cliBufErr, calls, sendCall,
                   doneBuf, recvPc, recvH, recvCall, recvErr, termLeft,
                   closeRet, ccCloses>>

\* what reaches the peer of a Flush of buf to a socket whose Write succeeds
Delivered(stream, buf, peerConn) ==
    IF peerConn = "open" THEN stream \o buf ELSE stream

\* GobCodec.Write (part_000 33-49): the body is encoded, the deferred function
\* flushes (its error is dropped) and closes the codec when Encode failed;
\* then send (client.go 191-200) returns or goes on to removeCall.
CliWriteBody(c) ==
    /\ callPc[c] = "body"
    /\ LET ok == Encodable(calls[c].Args)
           out == IF ok THEN Append(cliBuf, calls[c].Args) ELSE cliBuf
       IN /\ IF CliWriteOK
             THEN c2s' = Delivered(c2s, out, srvConn) /\ UNCHANGED cliBufErr
             ELSE cliBufErr' = CliWriteError /\ UNCHANGED c2s
          /\ cliBuf' = <<>>
          /\ IF ok
             THEN /\ sending' = Free
                  /\ callPc' = [callPc EXCEPT ![c] = "sent"]
                  /\ UNCHANGED <<sendErr, cliConn>>
             ELSE /\ sendErr' = ErrGobEncode
                  /\ cliConn' = "closed"
                  /\ callPc' = [callPc EXCEPT ![c] = "wfail"]
                  /\ UNCHANGED sending
    /\ UNCHANGED <<s2c, net, srvConn, srvVars, accVars, libVars, seq, pending, closing,
                   shutdown, header, mu, calls, sendCall, doneBuf, recvPc,
                   recvH, recvCall, recvErr, termLeft, closeRet, ccCloses>>

\* send (client.go 192-199): call = c.removeCall(seq) after a failed Write;
\* it is nil (0) when receive has removed the Call already
CliWriteFail(c) ==
    /\ callPc[c] = "wfail"
    /\ mu = Free
    /\ pending' = PendingDelete(pending, calls[c].Seq)
    /\ IF calls[c].Seq \in DOMAIN pending
       THEN /\ sendCall' = pending[calls[c].Seq]
            /\ calls' = [calls EXCEPT ![pending[calls[c].Seq]].Error = sendErr]
            /\ callPc' = [callPc EXCEPT ![c] = "wdone"]
            /\ UNCHANGED sending
       ELSE /\ sendCall' = 0
            /\ sending' = Free
            /\ callPc' = [callPc EXCEPT ![c] = "sent"]
            /\ UNCHANGED calls
    /\ UNCHANGED <<connVars, srvVars, accVars, libVars, seq, closing, shutdown, header,
                   mu, cliBuf, cliBufErr, sendErr, doneBuf, recvPc, recvH,
                   recvCall, recvErr, termLeft, closeRet, ccCloses>>

\* send (client.go 197): call.done() after a failed Write, then return
CliWriteDone(c) ==
    /\ callPc[c] = "wdone"
    /\ CanDone(sendCall)
    /\ calls' = [calls EXCEPT ![sendCall].notified = @ + 1]
    /\ doneBuf' = DoneSend(doneBuf, sendCall)
    /\ sending' = Free
    /\ callPc' = [callPc EXCEPT ![c] = "sent"]
    /\ UNCHANGED <<connVars, srvVars, accVars, libVars, seq, pending, closing, shutdown,
                   header, mu, cliBuf, cliBufErr, sendErr, sendCall, recvPc,
                   recvH, recvCall, recvErr, termLeft, closeRet, ccCloses>>

\* Call (client.go 218-221): call := <-c.Go(...).Done; return call.Error
CliCallReturn(c) ==
    /\ callPc[c] = "sent"
    /\ calls[c].kind = "Call"
    /\ doneBuf[c] # <<>>
    /\ doneBuf' = [doneBuf EXCEPT ![c] = Tail(@)]
    /\ callPc' = [callPc EXCEPT ![c] = "ret"]
    /\ UNCHANGED <<connVars, srvVars, accVars, libVars, seq, pending, closing, shutdown,
                   header, sending, mu, cliBuf, cliBufErr, calls, sendErr, sendCall,
                   recvPc, recvH, recvCall, recvErr, termLeft, closeRet, ccCloses>>

\* the user of Go receives from the channel it handed in
UserRecv ==
    /\ doneBuf[UserChan] # <<>>
    /\ doneBuf' = [doneBuf EXCEPT ![UserChan] = Tail(@)]
    /\ UNCHANGED <<connVars, srvVars, accVars, libVars, seq, pending, closing, shutdown,
                   header, sending, mu, cliBuf, cliBufErr, calls, callPc,
                   sendErr, sendCall, recvPc, recvH, recvCall, recvErr, termLeft, closeRet,
                   ccCloses>>


(* --------------------------- Client.receive ---------------------------- *)
\* receive taking the oldest pending Call, whatever the header's number
MatchOldest(p, h) ==
    IF DOMAIN p = {} THEN 0
    ELSE p[CHOOSE s \in DOMAIN p : \A t \in DOMAIN p : s <= t]
\* the Call receive matches a header with: c.removeCall(h.Seq), 0 for nil
MatchCall(p, h) == IF h.Seq \in DOMAIN p THEN p[h.Seq] ELSE 0

\* the Call receive has matched with header h (client.go 115-117): a
\* non-empty h.Error is recorded with fmt.Errorf(h.Error)
Matched(call, h) ==
    [call EXCEPT !.replied = TRUE,
                 !.Error = IF h.Error # <<>> THEN Err(Errorf(h.Error)) ELSE @]

\* receive (client.go 104-117): c.cc.ReadHeader(&h); on a header, removeCall
\* under c.mu and the header's error text recorded with fmt.Errorf(h.Error)
CliReadHeader ==
    /\ recvPc = "header"
    /\ mu = Free
    /\ \/ /\ CliReadFails
          /\ recvErr' = CliReadError
          /\ recvPc' = "term"
          /\ UNCHANGED <<s2c, recvH, recvCall, pending, calls>>
       \/ /\ CliCanRead
          /\ s2c' = Tail(s2c)
          /\ IF DecodesAsHeader(Head(s2c))
             THEN /\ recvH' = Head(s2c)
                  /\ recvCall' = MatchCall(pending, Head(s2c))
                  /\ pending' = PendingDelete(pending, Head(s2c).Seq)
                  /\ calls' =
                       IF MatchCall(pending, Head(s2c)) = 0 THEN calls
                       ELSE [calls EXCEPT
                               ![MatchCall(pending, Head(s2c))] =
                                   Matched(@, Head(s2c))]
                  /\ recvPc' = "body"
                  /\ UNCHANGED recvErr
             ELSE /\ recvErr' = ErrGobMismatch
                  /\ recvPc' = "term"
                  /\ UNCHANGED <<recvH, recvCall, pending, calls>>
    /\ UNCHANGED <<c2s, net, cliConn, srvConn, srvVars, accVars, libVars, seq, closing,
                   shutdown, header, sending, mu, cliBuf, cliBufErr, callPc,
                   sendErr, sendCall, doneBuf, termLeft, closeRet, ccCloses>>

\* the destination receive passes to ReadBody: nil, or call.Reply (an *int)
BodyDest == IF recvCall = 0 \/ recvH.Error # <<>> THEN "nil" ELSE "int"

\* receive (client.go 113-126): c.cc.ReadBody, into call.Reply or discarded
CliReadBody ==
    /\ recvPc = "body"
    /\ \/ /\ CliReadFails
          /\ recvErr' = CliReadError
          /\ calls' = IF BodyDest = "int"
                      THEN [calls EXCEPT ![recvCall].Error =
                               Err(<<"reading body ">> \o CliReadError.msg)]
                      ELSE calls
          /\ recvPc' = IF recvCall = 0 THEN "term" ELSE "notify"
          /\ UNCHANGED s2c
       \/ /\ CliCanRead
          /\ s2c' = Tail(s2c)
          /\ IF DecodesAsBody(Head(s2c), BodyDest)
             THEN /\ recvErr' = NilErr
                  /\ calls' = IF BodyDest = "int"
                              THEN [calls EXCEPT
                                      ![recvCall].Reply = Head(s2c).v,
                                      ![recvCall].replyWrites = @ + 1]
                              ELSE calls
                  /\ recvPc' = IF recvCall = 0 THEN "header" ELSE "notify"
             ELSE /\ recvErr' = ErrGobMismatch
                  /\ calls' = [calls EXCEPT ![recvCall].Error =
                               Err(<<"reading body ">> \o ErrGobMismatch.msg)]
                  /\ recvPc' = "notify"
    /\ UNCHANGED <<c2s, net, cliConn, srvConn, srvVars, accVars, libVars, seq, pending,
                   closing, shutdown, header, sending, mu, cliBuf, cliBufErr,
                   callPc, sendErr, sendCall, doneBuf, recvH, recvCall,
                   termLeft, closeRet, ccCloses>>

\* receive (client.go 119, 125): call.done(), then the loop test err == nil
CliNotify ==
    /\ recvPc = "notify"
    /\ CanDone(recvCall)
    /\ calls' = [calls EXCEPT ![recvCall].notified = @ + 1]
    /\ doneBuf' = DoneSend(doneBuf, recvCall)
    /\ recvPc' = IF recvErr.isNil THEN "header" ELSE "term"
    /\ UNCHANGED <<connVars, srvVars, accVars, libVars, seq, pending, closing, shutdown,
                   header, sending, mu, cliBuf, cliBufErr, callPc, sendErr,
                   sendCall, recvH, recvCall, recvErr, termLeft, closeRet,
                   ccCloses>>

\* terminalCalls (client.go 88-94): both locks taken, shutdown set
CliTerminate ==
    /\ recvPc = "term"
    /\ sending = Free /\ mu = Free
    /\ sending' = ByRecv /\ mu' = ByRecv
    /\ shutdown' = TRUE
    /\ termLeft' = DOMAIN pending
    /\ recvPc' = "termLoop"
    /\ UNCHANGED <<connVars, srvVars, accVars, libVars, seq, pending, closing, header,
                   cliBuf, cliBufErr, calls, callPc, sendErr, sendCall,
                   doneBuf, recvH, recvCall, recvErr, closeRet, ccCloses>>

\* terminalCalls (client.go 95-98): one iteration of the range over c.pending,
\* in the map's order
CliTermCall(s) ==
    /\ recvPc = "termLoop"
    /\ s \in termLeft
    /\ CanDone(pending[s])
    /\ calls' = [calls EXCEPT ![pending[s]] = Completed(@, recvErr)]
    /\ doneBuf' = DoneSend(doneBuf, pending[s])
    /\ termLeft' = termLeft \ {s}
    /\ UNCHANGED <<connVars, srvVars, accVars, libVars, seq, pending, closing, shutdown,
                   header, sending, mu, cliBuf, cliBufErr, callPc, sendErr,
                   sendCall, recvPc, recvH, recvCall, recvErr, closeRet,
                   ccCloses>>

\* terminalCalls returns (the deferred Unlocks), and receive with it
CliTermExit ==
    /\ recvPc = "termLoop"
    /\ termLeft = {}
    /\ sending' = Free /\ mu' = Free
    /\ recvPc' = "exited"
    /\ UNCHANGED <<connVars, srvVars, accVars, libVars, seq, pending, closing, shutdown,
                   header, cliBuf, cliBufErr, calls, callPc, sendErr, sendCall,
                   doneBuf, recvH, recvCall, recvErr, termLeft, closeRet,
                   ccCloses>>

(* ------------------------ Close, IsAvailable --------------------------- *)
\* Close without its test of c.closing
CloseRejectsNever == FALSE
\* Close's guard (client.go 227): the client was closed by the user before
CloseRejects == closing

\* Close (client.go 223-232); cc.Close is conn.Close, which reports a socket
\* that is closed already
CliClose ==
    /\ Len(closeRet) < MaxClose
    /\ mu = Free
    /\ IF CloseRejects
       THEN /\ closeRet' = Append(closeRet, ErrShutdown)
            /\ UNCHANGED <<closing, cliConn, ccCloses>>
       ELSE /\ closing' = TRUE
            /\ cliConn' = "closed"
            /\ ccCloses' = ccCloses + 1
            /\ closeRet' = Append(closeRet,
                   IF cliConn = "closed" THEN ErrWriteClosed ELSE NilErr)
    /\ UNCHANGED <<c2s, s2c, net, srvConn, srvVars, accVars, libVars, seq, pending,
                   shutdown, header, sending, mu, cliBuf, cliBufErr, calls,
                   callPc, sendErr, sendCall, doneBuf, recvPc, recvH, recvCall,
                   recvErr, termLeft>>

\* IsAvailable testing c.closing alone
IsAvailableClosingOnly == ~closing
\* IsAvailable (client.go 234-239)
IsAvailable == ~closing /\ ~shutdown

(* ----------------------------- the network ----------------------------- *)
\* the network path fails: what is in flight is lost, reads and writes fail
NetBreak ==
    /\ net = "up"
    /\ net' = "down"
    /\ c2s' = <<>> /\ s2c' = <<>>
    /\ UNCHANGED <<cliConn, srvConn, cliVars, srvVars, accVars, libVars>>


(* ------------------------- the service registry ------------------------ *)
\* the methodType registerMethods builds for a method func(Args, *int) error
IntMethod(fn) == [ArgType |-> "Args", ReplyType |-> "int", fn |-> fn]
\* the serviceMap after Registry(&foo) (main.go 55-58): Foo with Sum, and a
\* method Fail that returns a non-nil error
FooService == [name |-> <<"Foo">>,
               method |-> (<<"Sum">> :> IntMethod("Sum"))
                          @@ (<<"Fail">> :> IntMethod("Fail"))]
\* strings.Index in place of strings.LastIndex
FirstIndex(str, sep) ==
    IF \E i \in 1..Len(str) : str[i] = sep
    THEN CHOOSE i \in 1..Len(str) :
             str[i] = sep /\ \A j \in 1..(i - 1) : str[j] # sep
    ELSE 0
\* strings.LastIndex(serviceMethod, "."), 1-based, 0 when there is none
RECURSIVE LastIndex(_, _)
LastIndex(str, sep) ==
    IF str = <<>> THEN 0
    ELSE IF str[Len(str)] = sep THEN Len(str)
    ELSE LastIndex(SubSeq(str, 1, Len(str) - 1), sep)
\* findService (part_001 60-78): its err, and svc and mtype when it has none
findService(serviceMethod) ==
    LET dot == LastIndex(serviceMethod, ".")
        serviceName == SubSeq(serviceMethod, 1, dot - 1)
        methodName == SubSeq(serviceMethod, dot + 1, Len(serviceMethod))
    IN IF dot = 0
       THEN [err |-> Err(<<"rpc server: service/method request ill-formed: ">>
                          \o serviceMethod)]
       ELSE IF serviceName \notin DOMAIN serviceMap
       THEN [err |-> Err(<<"rpc server: can't find service ">> \o serviceName)]
       ELSE IF methodName \notin DOMAIN serviceMap[serviceName].method
       THEN [err |-> Err(<<"rpc server: can't find method ">> \o methodName)]
       ELSE [err |-> NilErr, svc |-> serviceName,
             mtype |-> serviceMap[serviceName].method[methodName]]
\* service.call (service.go 99-108) of a method on argv: the error returned
\* and *reply afterwards.  Sum is main.go 16-19 on Args{n, n*n}.
MethodErr(mtype, argv) == IF mtype.fn = "Fail" THEN Err(failMsg) ELSE NilErr
MethodReply(mtype, argv) == IF mtype.fn = "Sum" THEN argv.v + argv.v * argv.v ELSE 0

(* ------------------------------ ServeConn ------------------------------ *)
\* ServeConn's tests of the decoded option (part_001 89-97): whether
\* serveCodec is entered
OptionAccepted(opt) == opt.CodecType \in NewCodecFuncMap

\* ServeConn (part_001 82-99): the option is JSON-decoded from the connection;
\* on any failure the deferred conn.Close() runs and ServeConn returns
SrvHandshake ==
    /\ srvPc = "handshake"
    /\ \/ /\ SrvReadFails
          /\ srvConn' = "closed" /\ srvPc' = "closed"
          /\ UNCHANGED <<c2s, srvOpt>>
       \/ /\ SrvCanRead
          /\ c2s' = Tail(c2s)
          /\ IF Head(c2s).k = "opt"
             THEN /\ srvOpt' = Head(c2s)
                  /\ IF OptionAccepted(Head(c2s))
                     THEN srvPc' = "readHeader" /\ UNCHANGED srvConn
                     ELSE srvConn' = "closed" /\ srvPc' = "closed"
             ELSE srvConn' = "closed" /\ srvPc' = "closed" /\ UNCHANGED srvOpt
    /\ UNCHANGED <<s2c, net, cliConn, cliVars, accVars, libVars, serviceMap, failMsg,
                   srvReq, srvErr, handlers, srvSending, srvBuf, srvBufErr>>

\* readRequest after its header (part_001 136-140): the request, and where
\* readRequest goes next
Resolved(h) ==
    LET r == findService(h.ServerMethod)
    IN IF r.err.isNil
       THEN [header |-> h, mtype |-> r.mtype, err |-> NilErr]
       ELSE [header |-> h, mtype |-> IntMethod("none"), err |-> r.err]

\* serveCodec / readRequest / readRequestHeader (part_001 106-110, 132-140,
\* 158-167): one header is read and its method resolved; a failed read or
\* decode ends the loop
SrvReadHeader ==
    /\ srvPc = "readHeader"
    /\ \/ /\ SrvReadFails
          /\ srvPc' = "wait"
          /\ UNCHANGED <<c2s, srvReq>>
       \/ /\ SrvCanRead
          /\ c2s' = Tail(c2s)
          /\ IF DecodesAsHeader(Head(c2s))
             THEN /\ srvReq' = Resolved(Head(c2s))
                  /\ srvPc' = IF Resolved(Head(c2s)).err.isNil
                              THEN "readBody" ELSE "errHeader"
             ELSE srvPc' = "wait" /\ UNCHANGED srvReq
    /\ UNCHANGED <<s2c, net, cliConn, srvConn, cliVars, accVars, libVars, serviceMap,
                   failMsg, srvOpt, srvErr, handlers, srvSending, srvBuf,
                   srvBufErr>>

\* the handler serveCodec starts for a request (part_001 116-117)
NewHandler(req, argv) ==
    [header |-> req.header, mtype |-> req.mtype, argv |-> argv, pc |-> "run"]

\* readRequest returning the request with the error when ReadBody fails
AfterBodyErrorReply == "errHeader"
\* where serveCodec goes when readRequest's ReadBody fails (part_001 151-154,
\* 108-111): readRequest returns a nil request, so the loop is left
AfterBodyError == "wait"

\* readRequest (part_001 142-155) and serveCodec (part_001 116-117): the body
\* is decoded into a new argv and the handler goroutine started
SrvReadBody ==
    /\ srvPc = "readBody"
    /\ \/ /\ SrvReadFails
          /\ srvPc' = AfterBodyError
          /\ srvErr' = SrvReadError
          /\ UNCHANGED <<c2s, handlers>>
       \/ /\ SrvCanRead
          /\ c2s' = Tail(c2s)
          /\ IF DecodesAsBody(Head(c2s), srvReq.mtype.ArgType)
             THEN /\ handlers' = Append(handlers, NewHandler(srvReq, Head(c2s)))
                  /\ srvPc' = "readHeader"
                  /\ UNCHANGED srvErr
             ELSE /\ srvPc' = AfterBodyError
                  /\ srvErr' = ErrGobMismatch
                  /\ UNCHANGED handlers
    /\ UNCHANGED <<s2c, net, cliConn, srvConn, cliVars, accVars, libVars, serviceMap,
                   failMsg, srvOpt, srvReq, srvSending, srvBuf, srvBufErr>>

\* sendResponse (part_001 182-189) up to GobCodec.Write's header Encode
\* (part_000 40-43), for header h by the unit who: the state of the codec and
\* of the lock afterwards
SendHeader(who, h) ==
    /\ LockFree(srvSending)
    /\ IF ~srvBufErr.isNil
       THEN /\ srvConn' = "closed"
            /\ UNCHANGED <<srvSending, srvBuf>>
       ELSE /\ srvSending' = who
            /\ srvBuf' = <<h>>
            /\ UNCHANGED srvConn
    /\ UNCHANGED <<c2s, s2c, net, cliConn, srvBufErr>>

\* GobCodec.Write's body Encode and deferred Flush (part_000 33-49), then
\* sendResponse's Unlock
SendBody(who, body) ==
    /\ srvSending = who
    /\ srvSending' = Free
    /\ srvBuf' = <<>>
    /\ IF SrvWriteOK
       THEN s2c' = Delivered(s2c, Append(srvBuf, body), cliConn)
            /\ UNCHANGED srvBufErr
       ELSE srvBufErr' = SrvWriteError /\ UNCHANGED s2c
    /\ UNCHANGED <<c2s, net, cliConn, srvConn>>

\* the header serveCodec replies with when readRequest failed with a request
\* (part_001 112)
ErrorHeader(req) == [req.header EXCEPT !.Error = req.err.msg]

\* serveCodec (part_001 112-114): the error reply's header
SrvErrHeader ==
    /\ srvPc = "errHeader"
    /\ SendHeader(ByLoop, ErrorHeader(srvReq))
    /\ srvPc' = IF ~srvBufErr.isNil THEN "readHeader" ELSE "errBody"
    /\ UNCHANGED <<cliVars, accVars, libVars, serviceMap, failMsg, srvOpt, srvReq, srvErr,
                   handlers>>

\* serveCodec (part_001 113-114): the error reply's placeholder body, continue
SrvErrBody ==
    /\ srvPc = "errBody"
    /\ SendBody(ByLoop, invalidRequest)
    /\ srvPc' = "readHeader"
    /\ UNCHANGED <<cliVars, accVars, libVars, serviceMap, failMsg, srvOpt, srvReq, srvErr,
                   handlers>>

\* the header handleRequest replies with (part_001 173-179): the request's
\* own header, its Error set when the method failed
ReplyHeader(h) ==
    [h.header EXCEPT !.Error = MethodErr(h.mtype, h.argv).msg]
\* the body handleRequest replies with
ReplyBody(h) ==
    IF MethodErr(h.mtype, h.argv).isNil
    THEN Body(h.mtype.ReplyType, MethodReply(h.mtype, h.argv))
    ELSE invalidRequest

\* handleRequest (part_001 169-179): the method is called, and sendResponse
\* takes the lock and encodes the header
HandlerHeader(i) ==
    /\ i \in DOMAIN handlers
    /\ handlers[i].pc = "run"
    /\ SendHeader(ByHandler(i), ReplyHeader(handlers[i]))
    /\ handlers' = [handlers EXCEPT ![i].pc =
                       IF ~srvBufErr.isNil THEN "done" ELSE "body"]
    /\ UNCHANGED <<cliVars, accVars, libVars, serviceMap, failMsg, srvPc, srvOpt, srvReq, srvErr>>

\* handleRequest: the reply's body, Unlock, and wg.Done
HandlerBody(i) ==
    /\ i \in DOMAIN handlers
    /\ handlers[i].pc = "body"
    /\ SendBody(ByHandler(i), ReplyBody(handlers[i]))
    /\ handlers' = [handlers EXCEPT ![i].pc = "done"]
    /\ UNCHANGED <<cliVars, accVars, libVars, serviceMap, failMsg, srvPc, srvOpt, srvReq, srvErr>>

\* serveCodec without wg.Wait()
HandlersDoneNoWait == TRUE
\* wg.Wait() (part_001 119): every handler of the connection has finished
HandlersDone == \A i \in DOMAIN handlers : handlers[i].pc = "done"

\* serveCodec (part_001 119-120) and ServeConn's deferred conn.Close()
SrvWait ==
    /\ srvPc = "wait"
    /\ HandlersDone
    /\ srvConn' = "closed"
    /\ srvPc' = "closed"
    /\ UNCHANGED <<c2s, s2c, net, cliConn, cliVars, accVars, libVars, serviceMap,
                   failMsg, srvOpt, srvReq, srvErr, handlers, srvSending, srvBuf,
                   srvBufErr>>


(* ---------------------------- Server.Accept ---------------------------- *)
\* a connection as Accept hands it to ServeConn: nothing read or written yet
FreshConn ==
    /\ c2s' = <<>> /\ s2c' = <<>>
    /\ net' = "up" /\ cliConn' = "open" /\ srvConn' = "open"
    /\ srvPc' = "handshake"
    /\ srvOpt' = Opt(0, "")
    /\ handlers' = <<>>
    /\ srvSending' = Free /\ srvBuf' = <<>> /\ srvBufErr' = NilErr
    /\ peerSent' = 0 /\ peerGot' = <<>>

\* Accept (part_001 34-42): lis.Accept() returns a connection, and ServeConn
\* is called with it in the loop's own goroutine
AccAccept ==
    /\ accPc = "accept"
    /\ nAccepts < MaxAccepts
    /\ nAccepts' = nAccepts + 1
    /\ accPc' = "serving"
    /\ FreshConn
    /\ UNCHANGED <<cliVars, libVars, serviceMap, failMsg, srvReq, srvErr, accErrs>>

\* where Accept is after lis.Accept() returned an error (part_001 37-40): the
\* error is logged and ServeConn is called all the same, with the nil
\* connection, whose Read (json Decode) and Close dereference nil
AfterAcceptError == "panicked"

\* Accept (part_001 36-40): lis.Accept() returns an error
AccError ==
    /\ accPc = "accept"
    /\ nAccepts < MaxAccepts
    /\ nAccepts' = nAccepts + 1
    /\ accErrs' = accErrs + 1
    /\ accPc' = AfterAcceptError
    /\ UNCHANGED <<connVars, cliVars, libVars, srvVars, peerSent, peerGot>>

\* ServeConn returns to Accept's loop (part_001 40-41)
AccReturn ==
    /\ accPc = "serving"
    /\ srvPc = "closed"
    /\ accPc' = "accept"
    /\ UNCHANGED <<connVars, cliVars, libVars, srvVars, nAccepts, accErrs, peerSent,
                   peerGot>>

(* ------------------------------ a raw peer ----------------------------- *)
\* A peer that writes the option and frames itself, as main.go 85-104 does.
\* the handshake descriptors a peer may send
PeerOptions == {Opt(MagicNumber, GobType), Opt(WrongMagic, GobType),
                Opt(MagicNumber, JsonType)}
\* the requests a peer may send: the method named, the type of the body
PeerMethods == {FooSum, FooFail, BarSum, FooNope, NoDot}
PeerBodies == {Body("Args", 1), Body("string", 0)}

\* the peer writes the JSON option, the first bytes of the connection
PeerOption(o) ==
    /\ accPc = "serving"
    /\ peerSent = 0
    /\ cliConn = "open" /\ net = "up"
    /\ peerSent' = 1
    /\ c2s' = Delivered(c2s, <<o>>, srvConn)
    /\ UNCHANGED <<s2c, net, cliConn, srvConn, cliVars, libVars, srvVars, accPc,
                   nAccepts, accErrs, peerGot>>

\* the peer writes one well-formed frame: a header, then its body
PeerFrame(m, b) ==
    /\ accPc = "serving"
    /\ peerSent >= 1 /\ peerSent <= MaxPeerFrames
    /\ cliConn = "open" /\ net = "up"
    /\ peerSent' = peerSent + 1
    /\ c2s' = Delivered(c2s, <<Hdr(m, peerSent, <<>>), b>>, srvConn)
    /\ UNCHANGED <<s2c, net, cliConn, srvConn, cliVars, libVars, srvVars, accPc,
                   nAccepts, accErrs, peerGot>>

\* the peer reads the next value the server wrote
PeerRecv ==
    /\ accPc = "serving"
    /\ CliCanRead
    /\ peerGot' = Append(peerGot, Head(s2c))
    /\ s2c' = Tail(s2c)
    /\ UNCHANGED <<c2s, net, cliConn, srvConn, cliVars, libVars, srvVars, accPc,
                   nAccepts, accErrs, peerSent>>

\* the peer closes its end
PeerClose ==
    /\ accPc = "serving"
    /\ cliConn = "open"
    /\ cliConn' = "closed"
    /\ UNCHANGED <<c2s, s2c, net, srvConn, cliVars, libVars, srvVars, accVars>>

(* ----------------------- newService, Registry -------------------------- *)
\* Names are sequences of characters here, so that their first letter shows.
\* the letters ast.IsExported takes for upper case
UpperCase ==
    {"A", "B", "C", "D", "E", "F", "G", "H", "I", "J", "K", "L", "M", "N", "O",
     "P", "Q", "R", "S", "T", "U", "V", "W", "X", "Y", "Z"}
\* ast.IsExported(name): the name begins with an upper-case letter
IsExported(name) == name # <<>> /\ name[1] \in UpperCase

\* a reflect.Type: its Name(), its PkgPath(), its Kind(), and the name of the
\* type Elem() gives for a pointer
Ty(name, pkg, kind, elem) ==
    [Name |-> name, PkgPath |-> pkg, Kind |-> kind, Elem |-> elem]
TInt == Ty(<<"i", "n", "t">>, "", "int", "")
TPtrInt == Ty(<<>>, "", "ptr", "int")
TArgs == Ty(<<"A", "r", "g", "s">>, "main", "struct", "")
TUnexported == Ty(<<"a", "r", "g", "s">>, "main", "struct", "")
TPtrUnexported == Ty(<<>>, "", "ptr", "args")
TError == Ty(<<"e", "r", "r", "o", "r">>, "", "interface", "")

\* isExportedOrBuildType (service.go 95-97)
isExportedOrBuildType(t) == IsExported(t.Name) \/ t.PkgPath = ""

\* a reflect.Method of a receiver type: NumIn counts the receiver; In1 and In2
\* are the types after the receiver, Out0 the first result
Method(name, numIn, numOut, in1, in2, out0) ==
    [Name |-> name, NumIn |-> numIn, NumOut |-> numOut, In1 |-> in1,
     In2 |-> in2, Out0 |-> out0]
\* func (Foo) Sum(Args, *int) error, as in main.go 16-19
MSum == Method(<<"S", "u", "m">>, 3, 1, TArgs, TPtrInt, TError)
\* func (Foo) Bad(Args, int) error: the reply parameter is no pointer
MBad == Method(<<"B", "a", "d">>, 3, 1, TArgs, TInt, TError)
\* func (Foo) Two(Args) error
MTwo == Method(<<"T", "w", "o">>, 2, 1, TArgs, TInt, TError)
\* func (Foo) NoErr(Args, *int) int
MNoErr == Method(<<"N", "o">>, 3, 1, TArgs, TPtrInt, TInt)
\* func (Foo) Hid(args, *int) error: the argument type is not exported
MHid == Method(<<"H", "i", "d">>, 3, 1, TUnexported, TPtrInt, TError)
\* func (Foo) Ptr(Args, *args) error: a pointer to a type that is not exported
MPtr == Method(<<"P", "t", "r">>, 3, 1, TArgs, TPtrUnexported, TError)

\* a receiver handed to Registry: the name of its type (what
\* reflect.Indirect(receiver).Type().Name() gives), which value it is, and the
\* method set of its type
Receiver(name, id, methods) == [Name |-> name, id |-> id, methods |-> methods]
NoReceiver == Receiver(<<>>, 0, {})
FooName == <<"F", "o", "o">>
BarName == <<"B", "a", "r">>
Receivers ==
    {Receiver(FooName, 1, {MSum, MBad, MTwo, MNoErr, MHid, MPtr}),
     Receiver(FooName, 2, {MSum}),
     Receiver(BarName, 3, {MSum}),
     Receiver(<<"f", "o", "o">>, 4, {MSum})}

\* registerMethods' test of one method (service.go 74-85)
Admits(m) ==
    /\ m.NumIn = 3 /\ m.NumOut = 1
    /\ m.Out0 = TError
    /\ isExportedOrBuildType(m.In1) /\ isExportedOrBuildType(m.In2)
\* the methodType registerMethods stores (service.go 86-90)
MethodTypeOf(m) == [ArgType |-> m.In1, ReplyType |-> m.In2, fn |-> m.Name]
\* registerMethods (service.go 68-93): the map of the methods it admits
registerMethods(methods) ==
    [n \in {m.Name : m \in {x \in methods : Admits(x)}} |->
        MethodTypeOf(CHOOSE m \in methods : m.Name = n)]
\* newService (service.go 53-66) of a receiver whose type name is exported
newService(r) ==
    [name |-> r.Name, receiver |-> r.id, method |-> registerMethods(r.methods)]
NoService == [name |-> <<>>, receiver |-> 0, method |-> <<>>]

\* sync.Map.Store in place of LoadOrStore
StoreAlways(m, k, v) == [map |-> (k :> v) @@ m, loaded |-> FALSE]
\* sync.Map.LoadOrStore (part_001 50): the map afterwards and whether the key
\* was there
LoadOrStore(m, k, v) ==
    IF k \in DOMAIN m THEN [map |-> m, loaded |-> TRUE]
    ELSE [map |-> (k :> v) @@ m, loaded |-> FALSE]
\* the error Registry returns for a duplicate (part_001 51)
ErrDuplicate(name) == Err(<<"rpc: service already defined: ">> \o name)

RegIds == 1..MaxRegs

\* Registry (part_001 49) and newService (service.go 53-66): the service is
\* built from the receiver; log.Fatalf ends it for a name that is not exported
RegNew(p, r) ==
    /\ regPc[p] = "idle"
    /\ regRecv' = [regRecv EXCEPT ![p] = r]
    /\ IF IsExported(r.Name)
       THEN /\ regSvc' = [regSvc EXCEPT ![p] = newService(r)]
            /\ regPc' = [regPc EXCEPT ![p] = "store"]
       ELSE /\ regPc' = [regPc EXCEPT ![p] = "fatal"]
            /\ UNCHANGED regSvc
    /\ UNCHANGED <<connVars, cliVars, srvVars, accVars, dialVars, regRet,
                   findName, found, replyv>>

\* Registry (part_001 50-53): LoadOrStore and the result
RegStore(p) ==
    /\ regPc[p] = "store"
    /\ LET r == LoadOrStore(serviceMap, regSvc[p].name, regSvc[p])
       IN /\ serviceMap' = r.map
          /\ regRet' = [regRet EXCEPT ![p] =
                          IF r.loaded THEN ErrDuplicate(regSvc[p].name)
                          ELSE NilErr]
    /\ regPc' = [regPc EXCEPT ![p] = "done"]
    /\ UNCHANGED <<connVars, cliVars, accVars, dialVars, failMsg, srvPc,
                   srvOpt, srvReq, srvErr, handlers, srvSending, srvBuf,
                   srvBufErr, regRecv, regSvc, findName, found, replyv>>

\* newReplyv (service.go 33-43): reflect.New(m.ReplyType.Elem()), where Elem
\* panics for a type that is no pointer
newReplyv(mtype) ==
    IF mtype.ReplyType.Kind = "ptr"
    THEN <<"new", mtype.ReplyType.Elem>>
    ELSE <<"panic", "reflect: Elem of invalid type">>
NoReply == <<"none", "">>
NoFound == [err |-> NilErr, svc |-> <<>>, mtype |-> <<>>]

\* the service-method names requests carry
Dotted(service, method) == service \o <<".">> \o method
FindNames ==
    {Dotted(FooName, m.Name) : m \in {MSum, MBad, MTwo, MNoErr, MHid, MPtr}}
    \cup {Dotted(BarName, MSum.Name), Dotted(FooName, <<>>),
          Dotted(<<>>, MSum.Name), FooName \o MSum.Name,
          Dotted(Dotted(FooName, MSum.Name), MSum.Name)}

\* readRequest (part_001 137-143) for a header naming n: findService, and for
\* a method found, newReplyv
LibReadRequest(n) ==
    /\ findName' = n
    /\ found' = findService(n)
    /\ replyv' = IF findService(n).err.isNil
                 THEN newReplyv(findService(n).mtype)
                 ELSE NoReply
    /\ UNCHANGED <<connVars, cliVars, srvVars, accVars, dialVars, regPc,
                   regRecv, regSvc, regRet>>

\* no Registry under way and nothing looked up
RegIdle ==
    /\ regPc = [p \in RegIds |-> "idle"]
    /\ regRecv = [p \in RegIds |-> NoReceiver]
    /\ regSvc = [p \in RegIds |-> NoService]
    /\ regRet = [p \in RegIds |-> NilErr]
    /\ findName = <<>>
    /\ found = NoFound
    /\ replyv = NoReply

(* ------------------------------ client.Dial ---------------------------- *)
\* a nil *option.Option
NilOpt == [k |-> "nil", MagicNumber |-> 0, CodecType |-> ""]
\* option.DefaultOption (service.go 124-127)
DefaultOption == Opt(MagicNumber, GobType)
\* the option values a caller may pass to Dial
OptValues == {NilOpt, DefaultOption, Opt(WrongMagic, ""), Opt(0, JsonType)}
\* the argument lists of at most MaxOpts options
OptLists == UNION {[1..n -> OptValues] : n \in 0..MaxOpts}

\* parseOption (client.go 202-216): the option and the error it returns
parseOption(opts) ==
    IF Len(opts) = 0 \/ opts[1] = NilOpt
    THEN [opt |-> DefaultOption, err |-> NilErr]
    ELSE IF Len(opts) # 1
    THEN [opt |-> NilOpt, err |-> Err(<<"number of options is more than 1">>)]
    ELSE [opt |-> [opts[1] EXCEPT
                     !.MagicNumber = DefaultOption.MagicNumber,
                     !.CodecType = IF @ = "" THEN DefaultOption.CodecType
                                   ELSE @],
          err |-> NilErr]

\* what Dial returns: whether client is non-nil, and err
DialResult(client, err) == [client |-> client, err |-> err]
ErrDial == Err(<<"dial tcp: connection refused">>)
ErrCodecType == Err(<<"invalid codec type">>)

\* Dial (client.go 135-138): parseOption, and the return on its error
DialStart(opts) ==
    /\ dialPc = "idle"
    /\ dialOpts' = opts
    /\ IF parseOption(opts).err.isNil
       THEN /\ dialOpt' = parseOption(opts).opt
            /\ dialPc' = "dial"
            /\ UNCHANGED dialRet
       ELSE /\ dialRet' = DialResult(FALSE, parseOption(opts).err)
            /\ dialPc' = "returned"
            /\ UNCHANGED dialOpt
    /\ UNCHANGED <<connVars, cliVars, srvVars, accVars, regVars, dialConns>>

\* Dial (client.go 140-143): net.Dial, which connects or fails
DialConnect ==
    /\ dialPc = "dial"
    /\ \/ /\ dialConns' = dialConns + 1
          /\ dialPc' = "newClient"
          /\ UNCHANGED dialRet
       \/ /\ dialRet' = DialResult(FALSE, ErrDial)
          /\ dialPc' = "returned"
          /\ UNCHANGED dialConns
    /\ UNCHANGED <<connVars, cliVars, srvVars, accVars, regVars, dialOpts,
                   dialOpt>>

\* NewClient (client.go 37-53) and Dial's return (client.go 146-152): the
\* codec constructor is looked up and the option written to the connection
DialNewClient ==
    /\ dialPc = "newClient"
    /\ \/ /\ dialOpt.CodecType \notin NewCodecFuncMap
          /\ dialRet' = DialResult(FALSE, ErrCodecType)
       \/ /\ dialOpt.CodecType \in NewCodecFuncMap
          /\ dialRet' \in {DialResult(TRUE, NilErr),
                           DialResult(FALSE, ErrWriteReset)}
    /\ dialPc' = "returned"
    /\ UNCHANGED <<connVars, cliVars, srvVars, accVars, regVars, dialOpts,
                   dialOpt, dialConns>>

\* no Dial under way
DialIdle ==
    /\ dialOpts = <<>>
    /\ dialPc = "idle"
    /\ dialOpt = NilOpt
    /\ dialRet = DialResult(FALSE, NilErr)
    /\ dialConns = 0

(* --------------------------- specifications ---------------------------- *)
\* the error texts of length at most MaxMsgLen over the characters e and %
Msgs == UNION {[1..n -> {"e", "%"}] : n \in 0..MaxMsgLen}

\* the client as newClientCodec leaves it (client.go 55-65), receive started
InitClient ==
    /\ seq = 1
    /\ pending = <<>>
    /\ closing = FALSE /\ shutdown = FALSE
    /\ header = [ServerMethod |-> <<>>, Seq |-> 0]
    /\ sending = Free /\ mu = Free
    /\ cliBuf = <<>> /\ cliBufErr = NilErr
    /\ calls = [c \in CallIds |-> NoCall]
    /\ callPc = [c \in CallIds |-> "idle"]
    /\ sendErr = NilErr /\ sendCall = 0
    /\ doneBuf = [ch \in ChanIds |-> <<>>]
    /\ recvPc = "header"
    /\ recvH = Hdr(<<>>, 0, <<>>)
    /\ recvCall = 0 /\ recvErr = NilErr
    /\ termLeft = {}
    /\ closeRet = <<>> /\ ccCloses = 0

\* the server after Registry(&foo), with no connection served yet
InitServer ==
    /\ serviceMap = (<<"Foo">> :> FooService)
    /\ srvPc = "closed"
    /\ srvOpt = Opt(0, "")
    /\ srvReq = Resolved(Hdr(NoDot, 0, <<>>))
    /\ srvErr = NilErr
    /\ handlers = <<>>
    /\ srvSending = Free /\ srvBuf = <<>> /\ srvBufErr = NilErr

\* Dial has returned a Client (client.go 134-153): NewClient has written the
\* option, the server's Accept has handed the connection to ServeConn
Init ==
    /\ InitClient
    /\ serviceMap = (<<"Foo">> :> FooService)
    /\ failMsg = <<"e">>
    /\ srvPc = "handshake"
    /\ srvOpt = Opt(0, "")
    /\ srvReq = [header |-> Hdr(NoDot, 0, <<>>), mtype |-> IntMethod("none"),
                 err |-> NilErr]
    /\ srvErr = NilErr
    /\ handlers = <<>>
    /\ srvSending = Free /\ srvBuf = <<>> /\ srvBufErr = NilErr
    /\ c2s = <<Opt(MagicNumber, GobType)>> /\ s2c = <<>>
    /\ net = "up" /\ cliConn = "open" /\ srvConn = "open"
    /\ accPc = "serving" /\ nAccepts = 1 /\ accErrs = 0
    /\ peerSent = 0 /\ peerGot = <<>>
    /\ RegIdle /\ DialIdle

\* the invocations made on the client: Call and Go of Foo.Sum, and Call with
\* a failing method, an unknown service, an argument of the wrong type and
\* an argument gob cannot encode
CallConfigs(c) ==
    {<<"Call", FooSum, Body("Args", c)>>,
     <<"GoUser", FooSum, Body("Args", c)>>,
     <<"GoNil", FooSum, Body("Args", c)>>,
     <<"Call", FooFail, Body("Args", c)>>,
     <<"Call", BarSum, Body("Args", c)>>,
     <<"Call", FooSum, Body("string", 0)>>,
     <<"Call", FooSum, Body("chan", 0)>>}

ClientNext ==
    \/ \E c \in CallIds : \E cfg \in CallConfigs(c) :
          CliGo(c, cfg[1], cfg[2], cfg[3])
    \/ \E c \in CallIds : CliSendReject(c)
    \/ \E c \in CallIds : CliWriteHeader(c)
    \/ \E c \in CallIds : CliWriteBody(c)
    \/ \E c \in CallIds : CliWriteFail(c)
    \/ \E c \in CallIds : CliWriteDone(c)
    \/ \E c \in CallIds : CliCallReturn(c)
    \/ UserRecv
    \/ CliReadHeader
    \/ CliReadBody
    \/ CliNotify
    \/ CliTerminate
    \/ \E s \in DOMAIN pending : CliTermCall(s)
    \/ CliTermExit
    \/ CliClose

ServerNext ==
    \/ SrvHandshake
    \/ SrvReadHeader
    \/ SrvReadBody
    \/ SrvErrHeader
    \/ SrvErrBody
    \/ \E i \in DOMAIN handlers : HandlerHeader(i)
    \/ \E i \in DOMAIN handlers : HandlerBody(i)
    \/ SrvWait

Next == ClientNext \/ ServerNext \/ NetBreak

\* one client and the server's ServeConn over one connection
Spec == Init /\ [][Next]_vars

\* a single registered method that fails, with every error text, called by
\* synchronous Calls over a connection that does not fail
InitErr ==
    /\ InitClient
    /\ serviceMap = (<<"Foo">> :> FooService)
    /\ failMsg \in Msgs
    /\ srvPc = "handshake"
    /\ srvOpt = Opt(0, "")
    /\ srvReq = [header |-> Hdr(NoDot, 0, <<>>), mtype |-> IntMethod("none"),
                 err |-> NilErr]
    /\ srvErr = NilErr
    /\ handlers = <<>>
    /\ srvSending = Free /\ srvBuf = <<>> /\ srvBufErr = NilErr
    /\ c2s = <<Opt(MagicNumber, GobType)>> /\ s2c = <<>>
    /\ net = "up" /\ cliConn = "open" /\ srvConn = "open"
    /\ accPc = "serving" /\ nAccepts = 1 /\ accErrs = 0
    /\ peerSent = 0 /\ peerGot = <<>>
    /\ RegIdle /\ DialIdle

NextErr ==
    \/ \E c \in CallIds : CliGo(c, "Call", FooFail, Body("Args", c))
    \/ \E c \in CallIds : CliWriteHeader(c)
    \/ \E c \in CallIds : CliWriteBody(c)
    \/ \E c \in CallIds : CliCallReturn(c)
    \/ CliReadHeader
    \/ CliReadBody
    \/ CliNotify
    \/ SrvHandshake
    \/ SrvReadHeader
    \/ SrvReadBody
    \/ \E i \in DOMAIN handlers : HandlerHeader(i)
    \/ \E i \in DOMAIN handlers : HandlerBody(i)

SpecErr == InitErr /\ [][NextErr]_vars

\* the server's Accept loop with raw peers, one connection at a time
InitServe ==
    /\ InitClient
    /\ InitServer
    /\ failMsg = <<"e">>
    /\ c2s = <<>> /\ s2c = <<>>
    /\ net = "up" /\ cliConn = "closed" /\ srvConn = "closed"
    /\ accPc = "accept" /\ nAccepts = 0 /\ accErrs = 0
    /\ peerSent = 0 /\ peerGot = <<>>
    /\ RegIdle /\ DialIdle

NextServe ==
    \/ AccAccept
    \/ AccError
    \/ AccReturn
    \/ \E o \in PeerOptions : PeerOption(o)
    \/ \E m \in PeerMethods, b \in PeerBodies : PeerFrame(m, b)
    \/ PeerRecv
    \/ PeerClose
    \/ ServerNext
    \/ NetBreak

SpecServe == InitServe /\ [][NextServe]_vars

\* goroutines registering receivers while requests are resolved
InitReg ==
    /\ InitClient
    /\ serviceMap = <<>>
    /\ failMsg = <<"e">>
    /\ srvPc = "closed"
    /\ srvOpt = Opt(0, "")
    /\ srvReq = [header |-> Hdr(NoDot, 0, <<>>), mtype |-> IntMethod("none"),
                 err |-> NilErr]
    /\ srvErr = NilErr
    /\ handlers = <<>>
    /\ srvSending = Free /\ srvBuf = <<>> /\ srvBufErr = NilErr
    /\ c2s = <<>> /\ s2c = <<>>
    /\ net = "up" /\ cliConn = "closed" /\ srvConn = "closed"
    /\ accPc = "accept" /\ nAccepts = 0 /\ accErrs = 0
    /\ peerSent = 0 /\ peerGot = <<>>
    /\ RegIdle /\ DialIdle

NextReg ==
    \/ \E p \in RegIds : \E r \in Receivers : RegNew(p, r)
    \/ \E p \in RegIds : RegStore(p)
    \/ \E n \in FindNames : LibReadRequest(n)

SpecReg == InitReg /\ [][NextReg]_vars

\* one Dial with every list of options
InitDial ==
    /\ InitClient
    /\ InitServer
    /\ failMsg = <<"e">>
    /\ c2s = <<>> /\ s2c = <<>>
    /\ net = "up" /\ cliConn = "closed" /\ srvConn = "closed"
    /\ accPc = "accept" /\ nAccepts = 0 /\ accErrs = 0
    /\ peerSent = 0 /\ peerGot = <<>>
    /\ RegIdle /\ DialIdle

NextDial ==
    \/ \E opts \in OptLists : DialStart(opts)
    \/ DialConnect
    \/ DialNewClient

SpecDial == InitDial /\ [][NextDial]_vars

(* ------------------------------- claims -------------------------------- *)
\* a Call that registryCall gave a sequence number: one that was made and was
\* not rejected with ErrShutdown
Registered(c) == calls[c].kind # "none" /\ calls[c].Error # ErrShutdown
\* Go has returned the Call: send is over
Returned(c) == callPc[c] \in {"sent", "ret"}

\* C1: every Call is sent on its Done channel at most once in every reachable
\* state, and exactly once as soon as Go has returned it and the receive loop
\* has ended (terminalCalls has returned).
C1_NotifiedExactlyOnce ==
    \A c \in CallIds :
        /\ calls[c].notified <= 1
        /\ (recvPc = "exited" /\ Returned(c)) => calls[c].notified = 1
        /\ callPc[c] = "ret" => calls[c].notified = 1
\* Close was called, one Call was rejected with ErrShutdown and another was
\* completed by terminalCalls with the read error, each notified once
C1_Witness ==
    /\ recvPc = "exited"
    /\ closeRet # <<>>
    /\ \E c, d \in CallIds :
          /\ Returned(c) /\ calls[c].Error = ErrShutdown /\ calls[c].notified = 1
          /\ Returned(d) /\ calls[d].Error = recvErr /\ calls[d].notified = 1

\* C2: a Call's reply destination is decoded into at most once, and with the
\* reply the server's handler computed for the request that carried this
\* Call's sequence number and arguments.
C2_ReplyMatchesOwnRequest ==
    \A c \in CallIds :
        /\ calls[c].replyWrites <= 1
        /\ calls[c].replyWrites = 1 =>
              \E i \in DOMAIN handlers :
                 /\ handlers[i].header.Seq = calls[c].Seq
                 /\ handlers[i].argv = calls[c].Args
                 /\ calls[c].Reply = MethodReply(handlers[i].mtype, handlers[i].argv)
\* the second request's reply has been decoded into its Call while the first
\* request's handler has not yet replied
C2_Witness ==
    /\ Len(handlers) = 2
    /\ handlers[1].pc = "run"
    /\ \E c, d \in CallIds :
          /\ calls[c].Seq = handlers[1].header.Seq /\ calls[c].replyWrites = 0
          /\ calls[d].Seq = handlers[2].header.Seq /\ calls[d].replyWrites = 1

\* C3: the counter is at least 1; every registered Call has a sequence number
\* between 1 and the counter, Calls registered later have larger numbers, and
\* every entry of the pending table is filed under its Call's own number.
C3_SeqUniqueFromOne ==
    /\ seq >= 1
    /\ \A c \in CallIds : Registered(c) => calls[c].Seq >= 1 /\ calls[c].Seq < seq
    /\ \A c, d \in CallIds :
          Registered(c) /\ Registered(d) /\ c < d => calls[c].Seq < calls[d].Seq
    /\ \A s \in DOMAIN pending : calls[pending[s]].Seq = s
\* two Calls are in the pending table at once
C3_Witness == Cardinality(DOMAIN pending) = 2

\* C4 as claimed: once the receive loop has ended, every registered Call with
\* encodable arguments that no reply header was matched with has completed
\* once with the read error that ended the loop, and the client is shut down.
C4_AllInFlightGetReadError ==
    recvPc = "exited" =>
        /\ shutdown
        /\ \A c \in CallIds :
              (/\ Registered(c) /\ Returned(c)
               /\ Encodable(calls[c].Args)
               /\ ~calls[c].replied) =>
                  calls[c].Error = recvErr /\ calls[c].notified = 1
\* C4 amended: once the receive loop has ended the client is shut down, and
\* every Call in the pending table has completed once with the read error
\* that ended the loop.
C4_PendingGetReadError ==
    recvPc = "exited" =>
        /\ shutdown
        /\ ~recvErr.isNil
        /\ \A s \in DOMAIN pending :
              calls[pending[s]].Error = recvErr /\ calls[pending[s]].notified = 1
\* the loop has ended with two Calls in the pending table
C4_Witness == recvPc = "exited" /\ Cardinality(DOMAIN pending) = 2

\* C5: once closing is set, a Go or Call that starts is rejected: its error is
\* ErrShutdown, the pending table is left alone, and from the rejection it
\* only returns (it never goes on to the codec's Write).
C5_RejectedAfterClose ==
    [][\A c \in CallIds :
         /\ (closing /\ callPc[c] = "idle" /\ callPc'[c] # "idle") =>
               /\ callPc'[c] = "reject"
               /\ calls'[c].Error = ErrShutdown
               /\ pending' = pending
         /\ callPc[c] = "reject" =>
               /\ callPc'[c] \in {"reject", "sent"}
               /\ calls'[c].Error = ErrShutdown
               /\ cliBuf' = cliBuf
               /\ \A s \in DOMAIN pending' : pending'[s] # c]_vars
\* a Call made after Close has returned with ErrShutdown
C5_Witness ==
    /\ closing
    /\ closeRet # <<>>
    /\ \E c \in CallIds :
          Returned(c) /\ calls[c].Error = ErrShutdown /\ calls[c].notified = 1

\* C6: a Call of the failing method returns an error whose text is the text
\* of the error the method returned (any text that is not empty), and leaves
\* the reply destination as it was.
C6_ErrorTextPreserved ==
    \A c \in CallIds :
        (callPc[c] = "ret" /\ calls[c].ServerMethod = FooFail
         /\ failMsg # <<>>) =>
            /\ ~calls[c].Error.isNil
            /\ calls[c].Error.msg = failMsg
            /\ calls[c].Reply = ReplyInit

\* C7: on a connection whose option was the well-formed one, when the server
\* is about to read a frame header the next value of the stream is a header
\* (the peers write only whole frames).
C7_StreamStaysFramed ==
    (/\ srvPc = "readHeader"
     /\ srvOpt = Opt(MagicNumber, GobType)
     /\ c2s # <<>>) => Head(c2s).k = "hdr"

\* a step of readRequest in which the body is there and does not decode into
\* the argument type, on a connection whose option was the well-formed one
BodyDecodeFails ==
    /\ srvPc = "readBody"
    /\ srvOpt = Opt(MagicNumber, GobType)
    /\ SrvCanRead
    /\ ~DecodesAsBody(Head(c2s), srvReq.mtype.ArgType)
    /\ srvPc' # srvPc
\* C8 as claimed: a body that does not decode takes serveCodec to its error
\* reply and back to the loop, with the connection open.
C8_BodyErrorIsPerRequest ==
    [][BodyDecodeFails => (srvPc' = "errHeader" /\ srvConn' = "open")]_vars
\* C8 amended: a body that does not decode ends the read loop: serveCodec goes
\* on to wait for the handlers and close, and nothing is written for the
\* request.
C8_BodyErrorEndsLoop ==
    [][BodyDecodeFails =>
          (srvPc' = "wait" /\ s2c' = s2c /\ srvBuf' = srvBuf
           /\ handlers' = handlers)]_vars
\* the loop has ended on a body that did not decode, after an earlier request
\* of the connection was read and dispatched
C8_Witness ==
    /\ srvPc = "wait"
    /\ srvOpt = Opt(MagicNumber, GobType)
    /\ srvErr = ErrGobMismatch
    /\ Len(handlers) = 1

\* C9: ServeConn is in the serveCodec loop only for an option with the magic
\* number and a codec of NewCodecFuncMap.
C9_LoopOnlyAfterValidOption ==
    srvPc \in {"readHeader", "readBody", "errHeader", "errBody", "wait"} =>
        /\ srvOpt.MagicNumber = MagicNumber
        /\ srvOpt.CodecType \in NewCodecFuncMap

\* C10: after lis.Accept() has returned an error, Accept is still in its loop,
\* accepting or serving.
C10_AcceptSurvivesError ==
    accErrs > 0 => accPc \in {"accept", "serving"}

\* C11: a connection that is open and being served in the request loop does
\* not hold Accept's loop: the next client's connection can be accepted (and
\* with it its handshake read) while the first is still served.
C11_ServedConcurrently ==
    (/\ srvPc = "readHeader"
     /\ cliConn = "open" /\ srvConn = "open" /\ net = "up"
     /\ nAccepts < MaxAccepts) => ENABLED AccAccept

\* C12: on each direction of the connection what follows a header is the body
\* of the same message, never a value of another message.  A send between its header and its body
\* holds the sending lock, and the codec's buffer and the client's shared
\* header hold its own header; a server unit between the header and the body
\* of its response holds the connection's lock and the buffer holds its header.
C12_FramesContiguous ==
    /\ \A c \in CallIds :
          /\ callPc[c] \in {"reject", "prep", "body", "wfail", "wdone"} =>
                sending = ByCall(c)
          /\ callPc[c] = "body" =>
                /\ cliBuf = <<Hdr(calls[c].ServerMethod, calls[c].Seq, <<>>)>>
                /\ header = [ServerMethod |-> calls[c].ServerMethod,
                             Seq |-> calls[c].Seq]
    /\ cliBuf # <<>> => \E c \in CallIds : callPc[c] = "body"
    /\ \A i \in 1..Len(c2s) :
          (c2s[i].k = "hdr" /\ i < Len(c2s)) =>
             \E c \in CallIds :
                   /\ calls[c].Seq = c2s[i].Seq
                   /\ calls[c].ServerMethod = c2s[i].ServerMethod
                   /\ c2s[i + 1] = calls[c].Args
    /\ srvPc = "errBody" =>
          srvSending = ByLoop /\ srvBuf = <<ErrorHeader(srvReq)>>
    /\ \A i \in DOMAIN handlers :
          handlers[i].pc = "body" =>
             srvSending = ByHandler(i) /\ srvBuf = <<ReplyHeader(handlers[i])>>
    /\ srvBuf # <<>> => srvSending # Free
    /\ \A i \in 1..Len(s2c) :
          s2c[i].k = "hdr" =>
             /\ i < Len(s2c)
             /\ s2c[i + 1].k = "body"
             /\ (s2c[i].Error # <<>>) <=> (s2c[i + 1] = invalidRequest)
             /\ s2c[i].Error = <<>> =>
                   \E j \in DOMAIN handlers :
                      /\ handlers[j].header.Seq = s2c[i].Seq
                      /\ s2c[i + 1] = ReplyBody(handlers[j])
\* a handler is between the header and the body of its response while the
\* serve loop has an error reply to send and waits for the lock
C12_Witness ==
    /\ srvPc = "errHeader"
    /\ \E i \in DOMAIN handlers : handlers[i].pc = "body"

\* C13: an entry of the service map never changes once it is there.  A
\* Registry whose service name is in the map already returns the
\* duplicate-service error and leaves the map as it is; any other Registry
\* returns nil and the map resolves the name to its receiver.
C13_DuplicateKeepsFirst ==
    [][/\ \A n \in DOMAIN serviceMap :
             n \in DOMAIN serviceMap' /\ serviceMap'[n] = serviceMap[n]
       /\ \A p \in RegIds :
             (regPc[p] = "store" /\ regPc'[p] = "done") =>
                IF regSvc[p].name \in DOMAIN serviceMap
                THEN /\ regRet'[p] = ErrDuplicate(regSvc[p].name)
                     /\ serviceMap' = serviceMap
                ELSE /\ regRet'[p] = NilErr
                     /\ serviceMap'[regSvc[p].name].receiver = regRecv[p].id]_vars
\* two goroutines have registered two receivers of the same type name: one
\* got nil, the other the duplicate error, and the name resolves to the first
C13_Witness ==
    \E p, q \in RegIds :
        /\ regPc[p] = "done" /\ regPc[q] = "done"
        /\ regRecv[p].Name = regRecv[q].Name
        /\ regRecv[p].id # regRecv[q].id
        /\ regRet[p] = NilErr
        /\ regRet[q] = ErrDuplicate(regRecv[q].Name)
        /\ serviceMap[regRecv[p].Name].receiver = regRecv[p].id

\* C14: for every service-method name, with the service map as it is:
\* findService takes what is before the last "." as the service and what is
\* after it as the method.  A service that is not registered gives the
\* service-not-found error, a registered service without the method gives the
\* method-not-found error, which differs from every service-not-found error,
\* and a registered service with the method gives no error and the method's
\* descriptor.  A name without "." gives an error as well.
C14_FindServiceOutcomes ==
    \A n \in FindNames :
        LET r == findService(n)
            dots == {i \in 1..Len(n) : n[i] = "."}
            d == CHOOSE i \in dots : \A j \in dots : j <= i
            s == SubSeq(n, 1, d - 1)
            m == SubSeq(n, d + 1, Len(n))
        IN IF dots = {} THEN ~r.err.isNil
           ELSE IF s \notin DOMAIN serviceMap
           THEN r.err = Err(<<"rpc server: can't find service ">> \o s)
           ELSE IF m \notin DOMAIN serviceMap[s].method
           THEN /\ r.err = Err(<<"rpc server: can't find method ">> \o m)
                /\ \A x \in FindNames :
                      r.err # Err(<<"rpc server: can't find service ">> \o x)
           ELSE /\ r.err.isNil
                /\ r.svc = s
                /\ r.mtype = serviceMap[s].method[m]
\* with Foo and Bar registered, a request naming a method Foo does not have
\* was answered with the method-not-found error
C14_Witness ==
    /\ FooName \in DOMAIN serviceMap /\ BarName \in DOMAIN serviceMap
    /\ findName = Dotted(FooName, MTwo.Name)
    /\ found.err = Err(<<"rpc server: can't find method ">> \o MTwo.Name)

\* C15: a Dial that was given more than one option has returned an error and
\* no client, and has dialed no connection, whatever the options are; a Dial
\* that was given none or one is not rejected for its options.
C15_MoreThanOneOptionRejected ==
    dialPc # "idle" =>
        IF Len(dialOpts) > 1
        THEN /\ dialPc = "returned"
             /\ ~dialRet.client
             /\ ~dialRet.err.isNil
             /\ dialConns = 0
        ELSE dialPc = "returned" /\ dialConns = 0 => dialRet.err = ErrDial

\* C16: IsAvailable() is true exactly while neither closing nor shutdown is
\* set; once it is false it is false after every later step; and it is false
\* once a Close has returned or the receive loop has exited.
C16_NeverActiveAgain ==
    [][/\ IsAvailable <=> (~closing /\ ~shutdown)
       /\ ~IsAvailable => ~IsAvailable'
       /\ (closeRet' # <<>> \/ recvPc' = "exited") => ~IsAvailable']_vars
\* the receive loop has exited on a read error without a user Close, and a
\* Call made afterwards was rejected
C16_Witness ==
    /\ recvPc = "exited"
    /\ ~closing /\ shutdown
    /\ \E c \in CallIds : callPc[c] = "ret" /\ calls[c].Error = ErrShutdown

\* C17: before the first Close the client is not user-closed and Close has
\* not released the codec; from the first Close on the client is user-closed
\* and Close has released the codec exactly once; the first Close does not
\* return ErrShutdown and every later Close returns ErrShutdown.
C17_CloseGuarded ==
    /\ ccCloses <= 1
    /\ closeRet = <<>> => (~closing /\ ccCloses = 0)
    /\ closeRet # <<>> =>
          (closing /\ ccCloses = 1 /\ closeRet[1] # ErrShutdown)
    /\ \A i \in 2..Len(closeRet) : closeRet[i] = ErrShutdown
\* Close has been called twice
C17_Witness ==
    /\ Len(closeRet) = 2
    /\ closeRet[2] = ErrShutdown
    /\ ccCloses = 1

\* C18: a step in which the client's Write returns no error is one whose
\* flush reached the connection; a step in which the flush fails, or an
\* Encode fails, is one in which Write returns an error and the codec is
\* closed; either way nothing stays in the codec's buffer.
C18_WriteAtomic ==
    [][\A c \in CallIds :
         /\ (callPc[c] = "body" /\ callPc'[c] = "sent") =>
               (CliWriteOK /\ cliBufErr'.isNil /\ cliBuf' = <<>>)
         /\ (callPc[c] = "body" /\ callPc'[c] # "body" /\ ~CliWriteOK) =>
               callPc'[c] = "wfail"
         /\ (callPc[c] \in {"prep", "body"} /\ callPc'[c] = "wfail") =>
               (~sendErr'.isNil /\ cliConn' = "closed" /\ cliBuf' = <<>>)]_vars

\* C19: the serve routine releases the codec only from the end of its read
\* loop, after the wait for the handlers, and whenever the connection's serve
\* routine is over every handler started for the connection has sent its
\* reply and finished.
C19_CodecClosedAfterHandlers ==
    [][/\ (/\ srvPc \in {"readHeader", "readBody", "errHeader", "errBody", "wait"}
           /\ srvPc' = "closed") => srvPc = "wait"
       /\ srvPc' = "closed" =>
             \A i \in DOMAIN handlers' : handlers'[i].pc = "done"]_vars
\* serveCodec has closed the codec of a connection on which two requests were
\* dispatched
C19_Witness ==
    /\ srvPc = "closed"
    /\ OptionAccepted(srvOpt)
    /\ Len(handlers) = 2

\* C20: a service built by newService holds a method of the receiver's type
\* if and only if the method has two parameters after the receiver and the
\* single result error, its second parameter is a pointer, and both parameter
\* types are exported or built-in; every registered method has a pointer
\* reply type, and newReplyv has not panicked.
C20_OnlyPointerReplies ==
    /\ \A p \in RegIds :
          regPc[p] \in {"store", "done"} =>
             \A m \in regRecv[p].methods :
                (m.Name \in DOMAIN regSvc[p].method) <=>
                   (/\ m.NumIn = 3 /\ m.NumOut = 1
                    /\ m.Out0 = TError
                    /\ m.In2.Kind = "ptr"
                    /\ isExportedOrBuildType(m.In1)
                    /\ isExportedOrBuildType(m.In2))
    /\ \A s \in DOMAIN serviceMap :
          \A n \in DOMAIN serviceMap[s].method :
             serviceMap[s].method[n].ReplyType.Kind = "ptr"
    /\ replyv[1] # "panic"

\* C21: a Call that has been sent on its Done channel is no longer an entry of
\* the pending table, whichever of receive, send and terminalCalls completed
\* it; once the receive loop has exited the pending table is empty.
C21_CompletedNotPending ==
    /\ \A s \in DOMAIN pending : calls[pending[s]].notified = 0
    /\ recvPc = "exited" => DOMAIN pending = {}

\* C22: terminalCalls never waits for the receiver of a Done channel: while it
\* holds c.sending and c.mu it can deliver to a Call that remains or return
\* and release both locks, so that Close and Go are not kept out for good.
C22_TerminalCallsNeverBlocked ==
    (recvPc = "termLoop" /\ sending = ByRecv /\ mu = ByRecv) =>
        \/ termLeft = {}
        \/ \E s \in termLeft : CanDone(pending[s])

=============================================================================
